---- MODULE Spec2Model ----
(***************************************************************************)
(* Model of srunner/challenge/envs/sensor_interface.py.                    *)
(*                                                                         *)
(* SensorInterface is the registry: three dictionaries keyed by tag.  It   *)
(* takes no lock, so the threads that call it interleave between its       *)
(* statements.  The consumer thread registers sensors (CallBack.__init__), *)
(* polls all_sensors_ready() and calls get_data(); each tag has one        *)
(* producer thread, the sensor callback that calls update_sensor() with    *)
(* that tag.  Every statement that reads or writes a dictionary is one     *)
(* step.                                                                   *)
(*                                                                         *)
(* Payloads are Python objects: a dictionary holds a reference, and heap   *)
(* gives the content of every object.  update_sensor stores the reference  *)
(* it is passed; get_data stores a deep copy, which is a new object.       *)
(*                                                                         *)
(* A CallBack is the listener of one sensor: __call__ picks a _parse_*      *)
(* method by the class of the frame, the method builds the payload and     *)
(* calls update_sensor with the CallBack's tag.  The frame's data and the  *)
(* array built from it are objects of the heap, with the numbers they hold *)
(* as content.                                                             *)
(*                                                                         *)
(* HDMapReader and CANBusSensor are the pollers.  Both run the same loop   *)
(* on a daemon thread started by the constructor; listen() and destroy()   *)
(* are called from the owner's thread and interleave with the loop         *)
(* between its statements.  time.time() is read from now, a clock that     *)
(* advances in ticks.                                                      *)
(***************************************************************************)
EXTENDS Integers, Sequences, FiniteSets, TLC

\* ---- bounds ----
NumTags == 2
MaxUpdates == 2
NumCallbacks == 2
MaxTime == 5
\* 1 / self._reading_frequency, in ticks of the clock
Period == 1
MaxFloats == 10
MaxPixels == 4

Tags == 1..NumTags
\* one sensor object per tag: the sensor the CallBack of that tag is constructed with
Sensors == Tags
\* one producer thread per tag: the CallBack constructed with that tag (CallBack._tag)
Producers == Tags
\* the callables the owner passes to listen()
Callbacks == 1..NumCallbacks
PollerKinds == {"HDMapReader", "CANBusSensor"}

\* object references: None, the frames the producers create, the copies get_data makes
None == 0
FrameObj(n) == n + 1
CopyObj(tag) == MaxUpdates + tag
\* the array a CallBack builds from frame n
NormObj(n) == MaxUpdates + NumTags + 1 + n
NoTimestamp == -1

VARIABLES
    sensors_objects,  \* SensorInterface._sensors_objects: ordered dict, a sequence of [tag, sensor]
    data_buffers,     \* SensorInterface._data_buffers: tag -> reference to the payload, or None
    heap,             \* object reference -> content of the object
    timestamps,       \* SensorInterface._timestamps: tag -> timestamp
    cpc,              \* consumer thread: position inside all_sensors_ready / get_data
    ci,               \* consumer thread: index of the key the for loop is at
    cts,              \* consumer thread: self._timestamps[key], read before the deepcopy
    data_dict,        \* consumer thread: get_data's data_dict, tag -> (timestamp, reference)
    cret,             \* consumer thread: outcome of its last finished call
    ppc,              \* producer thread: position inside update_sensor
    parg,             \* producer thread: (tag, data, timestamp) of its current call
    nframes,          \* number of frames the producers have passed to update_sensor so far
    perr,             \* producer thread: its last update_sensor call raised ValueError
    issued,           \* history: (tag, timestamp, content) triples passed to update_sensor
    lastDone,         \* history: tag -> (timestamp, content) of the update_sensor call that returned last
    okPairs,          \* history: tag -> pairs the running get_data may report (see GetDataBegin)
    readySeen,        \* history: all_sensors_ready() has returned True since the last registration
    allUpdatedAtStart, \* history: every registered tag had a returned update when all_sensors_ready() was called
    kind,             \* the poller class that was constructed, or "none"
    callback,         \* poller._callback: None or the listener
    frame_number,     \* poller._frame_number
    run_ps,           \* poller._run_ps
    lpc,              \* loop thread: position inside run / read_CAN_Bus
    latest_read,      \* loop thread: latest_read / latest_speed_read
    capture,          \* loop thread: capture
    called,           \* loop thread: the callable loaded by the call expression self._callback(...)
    measurement,      \* loop thread: the Measurement built for the call
    now,              \* the clock time.time() reads
    delivered,        \* history: the Measurements delivered, in order, each with its receiver and time
    current,          \* history: the listeners registered at some moment since the emission started
    iterStopped,      \* history: destroy() had returned when the running loop iteration began
    dframe,           \* CallBack of a tag: the frame its __call__ was last passed
    dret,             \* CallBack of a tag: outcome of its last __call__
    dcalls,           \* history: the update_sensor calls the last __call__ of a CallBack made
    prevTs            \* history: tag -> timestamp in a snapshot the consumer was returned before

vars == <<sensors_objects, data_buffers, timestamps, heap, cpc, ci, cts, data_dict, cret,
          ppc, parg, nframes, perr, issued, lastDone, okPairs, readySeen, allUpdatedAtStart,
          kind, callback, frame_number, run_ps, lpc, latest_read, capture, called,
          measurement, now, delivered, current, iterStopped, dframe, dret, dcalls, prevTs>>

registry == <<sensors_objects, data_buffers, timestamps>>
consumerVars == <<cpc, ci, cts, data_dict, cret>>
producerVars == <<ppc, parg, nframes, perr>>
historyVars == <<issued, lastDone, okPairs, readySeen, allUpdatedAtStart>>
loopVars == <<kind, callback, frame_number, run_ps, lpc, latest_read, capture, called,
              measurement, now, delivered, current, iterStopped>>
\* the state of the CallBack objects, which neither the registry's own methods nor
\* the statements of the poller's loop touch
dispatchVars == <<dframe, dret, dcalls, prevTs>>
registryVars == <<registry, heap, consumerVars, producerVars, historyVars, dispatchVars>>
pollerVars == <<kind, callback, frame_number, run_ps, lpc, latest_read, capture, called,
                measurement, now, delivered, current, iterStopped, dispatchVars>>

\* ---- dictionaries ----
EmptyDict == [t \in {} |-> None]

\* d[k] = v on a Python dict: adds the key or replaces its value
DictSet(d, k, v) == [x \in (DOMAIN d) \cup {k} |-> IF x = k THEN v ELSE d[x]]

\* self._sensors_objects.keys(), in insertion order
Keys(so) == [i \in 1..Len(so) |-> so[i].tag]

KeySet(so) == {so[i].tag : i \in 1..Len(so)}

\* content of the object behind a reference; None is its own content
Content(h, ref) == IF ref = None THEN None ELSE h[ref]

\* copy.deepcopy left out: the caller is handed the stored object itself
DeepCopy_Alias(h, ref, new) == [ref |-> ref, heap |-> h]

\* the returned reference and the heap after copy.deepcopy(ref): None is returned as
\* it is, any other object is copied into the new object
DeepCopy(h, ref, new) ==
    IF ref = None THEN [ref |-> None, heap |-> h]
    ELSE [ref |-> new, heap |-> DictSet(h, new, h[ref])]

\* the heap once the objects of the previous snapshot are dropped
Release(h) == [o \in (DOMAIN h) \ {CopyObj(t) : t \in Tags} |-> h[o]]

Absent == <<NoTimestamp, None>>

NoArg == [tag |-> 0, data |-> None, timestamp |-> NoTimestamp]
NoRet == [op |-> "none"]

NoMeasurement == [type |-> "none", frame_number |-> NoTimestamp]

NoFrame == [variant |-> "none", frame_number |-> NoTimestamp, data |-> None,
            height |-> 0, width |-> 0]

\* no thread has called anything yet
InitThreads ==
    /\ heap = EmptyDict
    /\ cpc = "idle"
    /\ ci = 0
    /\ cts = NoTimestamp
    /\ data_dict = EmptyDict
    /\ cret = NoRet
    /\ ppc = [p \in Producers |-> "idle"]
    /\ parg = [p \in Producers |-> NoArg]
    /\ nframes = 0
    /\ perr = [p \in Producers |-> FALSE]
    /\ issued = {}
    /\ lastDone = [t \in Tags |-> Absent]
    /\ okPairs = [t \in Tags |-> {}]
    /\ readySeen = FALSE
    /\ allUpdatedAtStart = FALSE
    /\ dframe = [p \in Producers |-> NoFrame]
    /\ dret = [p \in Producers |-> "none"]
    /\ dcalls = [p \in Producers |-> <<>>]
    /\ prevTs = EmptyDict

\* SensorInterface.__init__
InitRegistry ==
    /\ sensors_objects = <<>>
    /\ data_buffers = EmptyDict
    /\ timestamps = EmptyDict
    /\ InitThreads

\* the registry once a CallBack has been constructed for every tag, in the order of the tags
InitCallBacks ==
    /\ sensors_objects = [t \in 1..NumTags |-> [tag |-> t, sensor |-> t]]
    /\ data_buffers = [t \in Tags |-> None]
    /\ timestamps = [t \in Tags |-> NoTimestamp]
    /\ InitThreads

\* HDMapReader.__init__ / CANBusSensor.__init__, up to the start of the thread
InitPoller(k) ==
    /\ kind = k
    /\ callback = None
    /\ frame_number = 0
    /\ run_ps = (k # "none")
    /\ lpc = IF k = "none" THEN "done" ELSE "start"
    /\ latest_read = 0
    /\ capture = 0
    /\ called = None
    /\ measurement = NoMeasurement
    /\ now = 0
    /\ delivered = <<>>
    /\ current = {}
    /\ iterStopped = FALSE

Init == InitRegistry /\ InitPoller("none")

\* the CallBacks constructed, no poller
InitCall == InitCallBacks /\ InitPoller("none")

\* ---- SensorInterface.register_sensor ----
\* register_sensor without the duplicate test: the entry is overwritten
RegisterSensor_Overwrite(tag, sensor) ==
    /\ cpc = "idle"
    /\ sensors_objects' =
          IF tag \in KeySet(sensors_objects)
            THEN [i \in 1..Len(sensors_objects) |->
                    IF sensors_objects[i].tag = tag THEN [tag |-> tag, sensor |-> sensor]
                    ELSE sensors_objects[i]]
            ELSE Append(sensors_objects, [tag |-> tag, sensor |-> sensor])
    /\ data_buffers' = DictSet(data_buffers, tag, None)
    /\ timestamps' = DictSet(timestamps, tag, NoTimestamp)
    /\ cret' = [op |-> "register_sensor", tag |-> tag, raised |-> FALSE]
    /\ readySeen' = FALSE
    /\ data_dict' = EmptyDict
    /\ heap' = Release(heap)
    /\ allUpdatedAtStart' = FALSE
    /\ UNCHANGED <<cpc, ci, cts, producerVars, issued, lastDone, okPairs>>
    /\ UNCHANGED pollerVars

RegisterSensor(tag, sensor) ==
    /\ cpc = "idle"
    /\ IF tag \in KeySet(sensors_objects)
         THEN /\ cret' = [op |-> "register_sensor", tag |-> tag, raised |-> TRUE]
              /\ UNCHANGED <<registry, readySeen>>
         ELSE /\ sensors_objects' = Append(sensors_objects, [tag |-> tag, sensor |-> sensor])
              /\ data_buffers' = DictSet(data_buffers, tag, None)
              /\ timestamps' = DictSet(timestamps, tag, NoTimestamp)
              /\ cret' = [op |-> "register_sensor", tag |-> tag, raised |-> FALSE]
              /\ readySeen' = FALSE
    /\ data_dict' = EmptyDict
    /\ heap' = Release(heap)
    /\ allUpdatedAtStart' = FALSE
    /\ UNCHANGED <<cpc, ci, cts, producerVars, issued, lastDone, okPairs>>
    /\ UNCHANGED pollerVars

\* CallBack.__init__: a tag is first registered with its own sensor; a repeated
\* registration of the tag may pass any sensor
CallBackInit(tag, sensor) ==
    /\ sensor = tag \/ tag \in KeySet(sensors_objects)
    /\ RegisterSensor(tag, sensor)

\* ---- SensorInterface.update_sensor ----
\* the next frame a producer passes: its frame number as timestamp, and a new payload
\* object, whose content is named after the object
Frame(tag) == [tag |-> tag, data |-> FrameObj(nframes), timestamp |-> nframes]

\* update_sensor without the registration test: the stores create the entry
UpdateCheck_NoTest(p) ==
    /\ ppc[p] = "idle"
    /\ nframes < MaxUpdates
    /\ nframes' = nframes + 1
    /\ perr' = [perr EXCEPT ![p] = FALSE]
    /\ parg' = [parg EXCEPT ![p] = Frame(p)]
    /\ ppc' = [ppc EXCEPT ![p] = "set_data"]
    /\ heap' = DictSet(heap, Frame(p).data, Frame(p).data)
    /\ issued' = issued \cup {<<p, Frame(p).timestamp, Frame(p).data>>}
    /\ okPairs' = IF cpc \in {"get_ts", "get_copy"} /\ okPairs[p] # {}
                    THEN [okPairs EXCEPT ![p] = @ \cup {<<Frame(p).timestamp, Frame(p).data>>}]
                    ELSE okPairs
    /\ UNCHANGED <<registry, consumerVars, lastDone, readySeen, allUpdatedAtStart>>
    /\ UNCHANGED pollerVars

UpdateCheck(p) ==
    /\ ppc[p] = "idle"
    /\ nframes < MaxUpdates
    /\ nframes' = nframes + 1
    /\ IF p \notin KeySet(sensors_objects)
         THEN /\ perr' = [perr EXCEPT ![p] = TRUE]
              /\ UNCHANGED <<ppc, parg, heap, issued, okPairs>>
         ELSE /\ perr' = [perr EXCEPT ![p] = FALSE]
              /\ parg' = [parg EXCEPT ![p] = Frame(p)]
              /\ ppc' = [ppc EXCEPT ![p] = "set_data"]
              /\ heap' = DictSet(heap, Frame(p).data, Frame(p).data)
              /\ issued' = issued \cup {<<p, Frame(p).timestamp, Frame(p).data>>}
              /\ okPairs' = IF cpc \in {"get_ts", "get_copy"} /\ okPairs[p] # {}
                              THEN [okPairs EXCEPT ![p] = @ \cup {<<Frame(p).timestamp, Frame(p).data>>}]
                              ELSE okPairs
    /\ UNCHANGED <<registry, consumerVars, lastDone, readySeen, allUpdatedAtStart>>
    /\ UNCHANGED pollerVars

\* the payload stored under every tag instead of under the tag passed
UpdateSetData_AllTags(p) ==
    /\ ppc[p] = "set_data"
    /\ data_buffers' = [t \in DOMAIN data_buffers |-> parg[p].data]
    /\ ppc' = [ppc EXCEPT ![p] = "set_timestamp"]
    /\ UNCHANGED <<sensors_objects, timestamps, heap, consumerVars, parg, nframes, perr,
                   historyVars>>
    /\ UNCHANGED pollerVars

\* self._data_buffers[tag] = data
UpdateSetData(p) ==
    /\ ppc[p] = "set_data"
    /\ data_buffers' = DictSet(data_buffers, parg[p].tag, parg[p].data)
    /\ ppc' = [ppc EXCEPT ![p] = "set_timestamp"]
    /\ UNCHANGED <<sensors_objects, timestamps, heap, consumerVars, parg, nframes, perr,
                   historyVars>>
    /\ UNCHANGED pollerVars

\* self._timestamps[tag] = timestamp, and the return
UpdateSetTimestamp(p) ==
    /\ ppc[p] = "set_timestamp"
    /\ timestamps' = DictSet(timestamps, parg[p].tag, parg[p].timestamp)
    /\ ppc' = [ppc EXCEPT ![p] = "idle"]
    /\ lastDone' = [lastDone EXCEPT ![parg[p].tag] = <<parg[p].timestamp, parg[p].data>>]
    /\ parg' = [parg EXCEPT ![p] = NoArg]
    /\ UNCHANGED <<sensors_objects, data_buffers, heap, consumerVars, nframes, perr,
                   issued, okPairs, readySeen, allUpdatedAtStart>>
    /\ UNCHANGED pollerVars

\* ---- SensorInterface.all_sensors_ready ----
ReadyBegin ==
    /\ cpc = "idle"
    /\ cpc' = "ready_loop"
    /\ ci' = 1
    /\ allUpdatedAtStart' = (\A t \in KeySet(sensors_objects) : lastDone[t] # Absent)
    /\ data_dict' = EmptyDict
    /\ heap' = Release(heap)
    /\ cret' = NoRet
    /\ UNCHANGED <<registry, cts, producerVars, issued, lastDone, okPairs, readySeen>>
    /\ UNCHANGED pollerVars

\* all_sensors_ready answering True at the first populated key
ReadyStep_FirstKey ==
    /\ cpc = "ready_loop"
    /\ IF ci > Len(sensors_objects) \/ data_buffers[Keys(sensors_objects)[ci]] # None
         THEN /\ cret' = [op |-> "all_sensors_ready", val |-> TRUE]
              /\ readySeen' = TRUE
         ELSE /\ cret' = [op |-> "all_sensors_ready", val |-> FALSE]
              /\ UNCHANGED readySeen
    /\ cpc' = "idle"
    /\ ci' = 0
    /\ UNCHANGED <<registry, heap, cts, data_dict, producerVars,
                   issued, lastDone, okPairs, allUpdatedAtStart>>
    /\ UNCHANGED pollerVars

\* one turn of "for key in self._sensors_objects.keys()"
ReadyStep ==
    /\ cpc = "ready_loop"
    /\ IF ci > Len(sensors_objects)
         THEN /\ cret' = [op |-> "all_sensors_ready", val |-> TRUE]
              /\ readySeen' = TRUE
              /\ cpc' = "idle"
              /\ ci' = 0
         ELSE IF data_buffers[Keys(sensors_objects)[ci]] = None
                THEN /\ cret' = [op |-> "all_sensors_ready", val |-> FALSE]
                     /\ cpc' = "idle"
                     /\ ci' = 0
                     /\ UNCHANGED readySeen
                ELSE /\ ci' = ci + 1
                     /\ UNCHANGED <<cpc, cret, readySeen>>
    /\ UNCHANGED <<registry, heap, cts, data_dict, producerVars,
                   issued, lastDone, okPairs, allUpdatedAtStart>>
    /\ UNCHANGED pollerVars

\* ---- SensorInterface.get_data ----
\* pairs of the update_sensor calls for tag t that are running now
InFlight(t) == {<<parg[p].timestamp, parg[p].data>> :
                  p \in {q \in Producers : ppc[q] # "idle" /\ parg[q].tag = t}}

GetDataBegin ==
    /\ cpc = "idle"
    /\ cpc' = "get_ts"
    /\ ci' = 1
    /\ data_dict' = EmptyDict
    /\ heap' = Release(heap)
    /\ okPairs' = [t \in Tags |-> IF lastDone[t] = Absent THEN {}
                                   ELSE {lastDone[t]} \cup InFlight(t)]
    /\ cret' = NoRet
    /\ allUpdatedAtStart' = FALSE
    /\ UNCHANGED <<registry, cts, producerVars, issued, lastDone, readySeen>>
    /\ UNCHANGED pollerVars

\* the for loop takes its next key and reads self._timestamps[key]
GetDataReadTimestamp ==
    /\ cpc = "get_ts"
    /\ IF ci > Len(sensors_objects)
         THEN /\ cret' = [op |-> "get_data"]
              /\ cpc' = "idle"
              /\ ci' = 0
              /\ okPairs' = [t \in Tags |-> {}]
              /\ UNCHANGED cts
         ELSE /\ cts' = timestamps[Keys(sensors_objects)[ci]]
              /\ cpc' = "get_copy"
              /\ UNCHANGED <<ci, cret, okPairs>>
    /\ UNCHANGED <<registry, heap, data_dict, producerVars, issued, lastDone, readySeen,
                   allUpdatedAtStart>>
    /\ UNCHANGED pollerVars

\* get_data leaving out the tags whose buffer is still None
GetDataCopy_SkipNone ==
    /\ cpc = "get_copy"
    /\ LET key == Keys(sensors_objects)[ci]
           copy == DeepCopy(heap, data_buffers[key], CopyObj(key))
       IN  /\ data_dict' = IF data_buffers[key] = None THEN data_dict
                            ELSE DictSet(data_dict, key, <<cts, copy.ref>>)
           /\ heap' = copy.heap
    /\ ci' = ci + 1
    /\ cts' = NoTimestamp
    /\ cpc' = "get_ts"
    /\ UNCHANGED <<registry, cret, producerVars, historyVars>>
    /\ UNCHANGED pollerVars

\* copy.deepcopy(self._data_buffers[key]) and the store into data_dict
GetDataCopy ==
    /\ cpc = "get_copy"
    /\ LET key == Keys(sensors_objects)[ci]
           copy == DeepCopy(heap, data_buffers[key], CopyObj(key))
       IN  /\ data_dict' = DictSet(data_dict, key, <<cts, copy.ref>>)
           /\ heap' = copy.heap
    /\ ci' = ci + 1
    /\ cts' = NoTimestamp
    /\ cpc' = "get_ts"
    /\ UNCHANGED <<registry, cret, producerVars, historyVars>>
    /\ UNCHANGED pollerVars

Next ==
    \/ \E t \in Tags, s \in Sensors : CallBackInit(t, s)
    \/ \E p \in Producers : UpdateCheck(p)
    \/ \E p \in Producers : UpdateSetData(p)
    \/ \E p \in Producers : UpdateSetTimestamp(p)
    \/ ReadyBegin
    \/ ReadyStep
    \/ GetDataBegin
    \/ GetDataReadTimestamp
    \/ GetDataCopy

Spec == Init /\ [][Next]_vars
\* ---- the caller of get_data() owns what it was returned ----
\* the content of an object after its holder writes into it
Mutated(c) == c + MaxUpdates

\* get_data() has returned and the consumer still holds the snapshot
Returned == cpc = "idle" /\ cret.op = "get_data"

\* the consumer writes into the payload object its snapshot holds for tag
ConsumerMutatesPayload(tag) ==
    /\ Returned
    /\ tag \in DOMAIN data_dict
    /\ data_dict[tag][2] # None
    /\ heap[data_dict[tag][2]] <= MaxUpdates
    /\ heap' = [heap EXCEPT ![data_dict[tag][2]] = Mutated(@)]
    /\ UNCHANGED <<registry, consumerVars, producerVars, historyVars>>
    /\ UNCHANGED pollerVars

\* the consumer deletes the entry of tag from the mapping it was returned
ConsumerMutatesMapping(tag) ==
    /\ Returned
    /\ tag \in DOMAIN data_dict
    /\ data_dict' = [t \in (DOMAIN data_dict) \ {tag} |-> data_dict[t]]
    /\ UNCHANGED <<registry, heap, cpc, ci, cts, cret, producerVars, historyVars>>
    /\ UNCHANGED pollerVars

NextOwn ==
    \/ Next
    \/ \E t \in Tags : ConsumerMutatesPayload(t)
    \/ \E t \in Tags : ConsumerMutatesMapping(t)

SpecOwn == Init /\ [][NextOwn]_vars

\* ---- CallBack ----
\* the tag kept in one place for all CallBacks: the tag of the first one
CallBackTag_First(p) == Keys(sensors_objects)[1]

\* self._tag of the CallBack whose __call__ thread p runs
CallBackTag(p) == p

\* the isinstance chain of CallBack.__call__: the method the frame is handed to
Dispatch(variant) ==
    CASE variant = "carla.Image" -> "_parse_image_cb"
      [] variant = "carla.LidarMeasurement" -> "_parse_lidar_cb"
      [] variant = "carla.GnssEvent" -> "_parse_gnss_cb"
      [] variant = "CANBusMeasurement" -> "_parse_speedometer"
      [] variant = "HDMapMeasurement" -> "_parse_hdmap"
      [] OTHER -> "logging.error"

\* np.reshape(a, (rows, cols)) of a flat array, in C order
Reshape2(a, rows, cols) ==
    [i \in 1..rows |-> [j \in 1..cols |-> a[(i - 1) * cols + j]]]

\* np.reshape(a, (height, width, depth)) of a flat array, in C order
Reshape3(a, height, width, depth) ==
    [r \in 1..height |-> [c \in 1..width |->
        [k \in 1..depth |-> a[((r - 1) * width + (c - 1)) * depth + k]]]]

\* array[:, :, :3]
Slice3(array) ==
    [r \in DOMAIN array |-> [c \in DOMAIN array[r] |-> [k \in 1..3 |-> array[r][c][k]]]]

\* array[:, :, ::-1]
ReverseLast(array) ==
    [r \in DOMAIN array |-> [c \in DOMAIN array[r] |->
        [k \in DOMAIN array[r][c] |-> array[r][c][Len(array[r][c]) + 1 - k]]]]

\* the outcome of a _parse_* method up to its call of update_sensor: it raised, or
\* it passes the frame's own data object (alias), or a new array with this value
Raised == [raised |-> TRUE, alias |-> FALSE, value |-> <<>>]
NewArray(v) == [raised |-> FALSE, alias |-> FALSE, value |-> v]
SameObject == [raised |-> FALSE, alias |-> TRUE, value |-> <<>>]

\* the buffer read column by column: reshaped to (width, height, 4)
ParseImageCb_WidthFirst(raw, height, width) ==
    IF Len(raw) # height * width * 4 THEN Raised
    ELSE NewArray(ReverseLast(Slice3(Reshape3(raw, width, height, 4))))

\* np.reshape raises ValueError when the sizes differ
ParseImageCb(raw, height, width) ==
    IF Len(raw) # height * width * 4 THEN Raised
    ELSE NewArray(ReverseLast(Slice3(Reshape3(raw, height, width, 4))))

\* the floats after the last full row dropped instead of refused
ParseLidarCb_Truncating(raw) == NewArray(Reshape2(raw, Len(raw) \div 3, 3))

\* int(points.shape[0] / 3) rows of 3; np.reshape raises ValueError when the sizes differ
ParseLidarCb(raw) ==
    LET rows == Len(raw) \div 3
    IN  IF Len(raw) # rows * 3 THEN Raised ELSE NewArray(Reshape2(raw, rows, 3))

\* np.array([latitude, longitude, altitude])
ParseGnssCb(raw) == NewArray(<<raw[1], raw[2], raw[3]>>)

\* speed.data
ParseSpeedometer(raw) == SameObject

\* hd_package.data
ParseHdmap(raw) == SameObject

Parse(method, raw, height, width) ==
    CASE method = "_parse_image_cb" -> ParseImageCb(raw, height, width)
      [] method = "_parse_lidar_cb" -> ParseLidarCb(raw)
      [] method = "_parse_gnss_cb" -> ParseGnssCb(raw)
      [] method = "_parse_speedometer" -> ParseSpeedometer(raw)
      [] method = "_parse_hdmap" -> ParseHdmap(raw)

\* the objects some variable refers to, when the CallBacks hold the frames df
Live(df) ==
    {data_buffers[t] : t \in DOMAIN data_buffers}
      \cup {data_dict[t][2] : t \in DOMAIN data_dict}
      \cup {parg[q].data : q \in Producers}
      \cup {df[q].data : q \in Producers}

\* the heap without the objects nothing refers to
Collect(h, refs) == [o \in (DOMAIN h) \cap refs |-> h[o]]

\* CallBack.__call__ of the CallBack of tag p is entered with frame f, whose data
\* object holds raw: the isinstance chain picks the method
Call(p, f, raw) ==
    /\ ppc[p] = "idle"
    /\ dret[p] # "running"
    /\ p \in KeySet(sensors_objects)
    /\ dframe' = [dframe EXCEPT ![p] = f]
    /\ heap' = DictSet(Collect(heap, Live(dframe')), f.data, raw)
    /\ dcalls' = [dcalls EXCEPT ![p] = <<>>]
    /\ perr' = [perr EXCEPT ![p] = FALSE]
    /\ IF Dispatch(f.variant) = "logging.error"
         THEN /\ dret' = [dret EXCEPT ![p] = "logged"]
              /\ UNCHANGED ppc
         ELSE /\ dret' = [dret EXCEPT ![p] = "running"]
              /\ ppc' = [ppc EXCEPT ![p] = "parse"]
    /\ UNCHANGED <<registry, consumerVars, parg, historyVars, prevTs>>

\* the sensor's thread calls the CallBack of tag p with its next frame; the producer
\* keeps the frame it passed until it creates the next one
CallBackCall(p, variant, raw, height, width) ==
    /\ nframes < MaxUpdates
    /\ nframes' = nframes + 1
    /\ Call(p, [variant |-> variant, frame_number |-> nframes, data |-> FrameObj(nframes),
                height |-> height, width |-> width], raw)
    /\ UNCHANGED loopVars

\* the _parse_* method: the array is built and update_sensor is called and makes its test
CallBackParse(p) ==
    /\ ppc[p] = "parse"
    /\ LET f == dframe[p]
           r == Parse(Dispatch(f.variant), heap[f.data], f.height, f.width)
           obj == IF r.alias THEN f.data ELSE NormObj(f.frame_number)
           tag == CallBackTag(p)
       IN  IF r.raised
             THEN /\ dret' = [dret EXCEPT ![p] = "raised"]
                  /\ ppc' = [ppc EXCEPT ![p] = "idle"]
                  /\ UNCHANGED <<heap, parg, dcalls, perr>>
             ELSE /\ dcalls' = [dcalls EXCEPT ![p] =
                                  Append(@, [tag |-> tag, data |-> obj,
                                             timestamp |-> f.frame_number])]
                  /\ heap' = IF r.alias THEN heap ELSE DictSet(heap, obj, r.value)
                  /\ IF tag \notin KeySet(sensors_objects)
                       THEN /\ perr' = [perr EXCEPT ![p] = TRUE]
                            /\ dret' = [dret EXCEPT ![p] = "raised"]
                            /\ ppc' = [ppc EXCEPT ![p] = "idle"]
                            /\ UNCHANGED parg
                       ELSE /\ parg' = [parg EXCEPT ![p] = [tag |-> tag, data |-> obj,
                                                            timestamp |-> f.frame_number]]
                            /\ ppc' = [ppc EXCEPT ![p] = "set_data"]
                            /\ UNCHANGED <<perr, dret>>
    /\ UNCHANGED <<registry, consumerVars, nframes, historyVars, dframe, prevTs, loopVars>>

\* update_sensor has returned and so does the _parse_* method and __call__
CallBackReturn(p) ==
    /\ ppc[p] = "idle"
    /\ dret[p] = "running"
    /\ dret' = [dret EXCEPT ![p] = "ok"]
    /\ heap' = Collect(heap, Live(dframe))
    /\ UNCHANGED <<registry, consumerVars, producerVars, historyVars, dframe, dcalls,
                   prevTs, loopVars>>

\* __call__ of the CallBack of tag p has ended
Finished(p) == ppc[p] = "idle" /\ dret[p] \in {"ok", "logged", "raised"}

\* a buffer overwritten with zeros
Zeroed(c) == [i \in 1..Len(c) |-> 0]

\* the producer reuses the buffer of the frame it passed to the CallBack of tag p,
\* after __call__ has returned
ProducerMutatesFrame(p) ==
    /\ ppc[p] = "idle"
    /\ dret[p] \in {"ok", "logged", "raised"}
    /\ dframe[p].data \in DOMAIN heap
    /\ heap[dframe[p].data] # Zeroed(heap[dframe[p].data])
    /\ heap' = [heap EXCEPT ![dframe[p].data] = Zeroed(@)]
    /\ UNCHANGED <<registry, consumerVars, producerVars, historyVars, dispatchVars, loopVars>>

\* one frame of every class a sensor passes, a point cloud np.reshape refuses, and an
\* event of a class the isinstance chain does not name
SampleInputs ==
    { [variant |-> "carla.Image", raw |-> <<10, 20, 30, 40>>, height |-> 1, width |-> 1],
      [variant |-> "carla.LidarMeasurement", raw |-> <<1, 2, 3>>, height |-> 0, width |-> 0],
      [variant |-> "carla.LidarMeasurement", raw |-> <<1, 2, 3, 4>>, height |-> 0, width |-> 0],
      [variant |-> "carla.GnssEvent", raw |-> <<5, 6, 7>>, height |-> 0, width |-> 0],
      [variant |-> "CANBusMeasurement", raw |-> <<8>>, height |-> 0, width |-> 0],
      [variant |-> "HDMapMeasurement", raw |-> <<9>>, height |-> 0, width |-> 0],
      [variant |-> "carla.CollisionEvent", raw |-> <<11>>, height |-> 0, width |-> 0] }

NextCall ==
    \/ \E p \in Producers, i \in SampleInputs :
          CallBackCall(p, i.variant, i.raw, i.height, i.width)
    \/ \E p \in Producers : CallBackParse(p)
    \/ \E p \in Producers : UpdateSetData(p)
    \/ \E p \in Producers : UpdateSetTimestamp(p)
    \/ \E p \in Producers : CallBackReturn(p)
    \/ \E p \in Producers : ProducerMutatesFrame(p)

SpecCall == InitCall /\ [][NextCall]_vars

\* a buffer of n numbers that all differ
Ramp(n, offset) == [i \in 1..n |-> offset + i]

Offsets == {0, 100}

\* lidar_data.raw_data read as f4: point clouds of every length up to MaxFloats
LidarInputs ==
    { [variant |-> "carla.LidarMeasurement", raw |-> Ramp(n, o), height |-> 0, width |-> 0] :
        n \in 0..MaxFloats, o \in Offsets }

\* the CallBack that was constructed first
FirstCallBack == Keys(sensors_objects)[1]

\* the first CallBack is the one of a lidar
NextLidar ==
    \/ \E i \in LidarInputs :
          CallBackCall(FirstCallBack, i.variant, i.raw, i.height, i.width)
    \/ \E p \in Producers : CallBackParse(p)
    \/ \E p \in Producers : UpdateSetData(p)
    \/ \E p \in Producers : UpdateSetTimestamp(p)
    \/ \E p \in Producers : CallBackReturn(p)

SpecLidar == InitCall /\ [][NextLidar]_vars

\* image.raw_data of every image of up to MaxPixels pixels, 4 bytes a pixel
Shapes == {hw \in (1..MaxPixels) \X (1..MaxPixels) : hw[1] * hw[2] <= MaxPixels}

ImageInputs ==
    { [variant |-> "carla.Image", raw |-> Ramp(4 * hw[1] * hw[2], o),
       height |-> hw[1], width |-> hw[2]] : hw \in Shapes, o \in Offsets }

\* the first CallBack is the one of a camera
NextImage ==
    \/ \E i \in ImageInputs :
          CallBackCall(FirstCallBack, i.variant, i.raw, i.height, i.width)
    \/ \E p \in Producers : CallBackParse(p)
    \/ \E p \in Producers : UpdateSetData(p)
    \/ \E p \in Producers : UpdateSetTimestamp(p)
    \/ \E p \in Producers : CallBackReturn(p)

SpecImage == InitCall /\ [][NextImage]_vars

\* ---- HDMapReader / CANBusSensor ----
\* the class of the Measurement a poller wraps its reading in
MeasurementType(k) == IF k = "HDMapReader" THEN "HDMapMeasurement" ELSE "CANBusMeasurement"

\* the loop's positions from the call expression to the bookkeeping after it
Emitting == {"load_callback", "produce", "deliver", "increment", "latest"}

\* latest_read = time.time()
LoopStart ==
    /\ lpc = "start"
    /\ latest_read' = now
    /\ lpc' = "while"
    /\ UNCHANGED <<kind, callback, frame_number, run_ps, capture, called, measurement,
                   now, delivered, current, iterStopped>>
    /\ UNCHANGED registryVars

\* the loop condition left out: while True
WhileCond_Forever == TRUE

\* while self._run_ps
WhileCond == run_ps

LoopWhile ==
    /\ lpc = "while"
    /\ IF WhileCond
         THEN /\ lpc' = "test_callback"
              /\ iterStopped' = ~run_ps
         ELSE /\ lpc' = "done"
              /\ UNCHANGED iterStopped
    /\ UNCHANGED <<kind, callback, frame_number, run_ps, latest_read, capture, called,
                   measurement, now, delivered, current>>
    /\ UNCHANGED registryVars

\* the counter advanced on every turn of the loop, listener or not
LoopTestCallback_Counting ==
    /\ lpc = "test_callback"
    /\ lpc' = IF callback # None THEN "capture" ELSE "while"
    /\ frame_number' = IF callback # None THEN frame_number ELSE frame_number + 1
    /\ UNCHANGED <<kind, callback, run_ps, latest_read, capture, called,
                   measurement, now, delivered, current, iterStopped>>
    /\ UNCHANGED registryVars

\* if self._callback is not None
LoopTestCallback ==
    /\ lpc = "test_callback"
    /\ lpc' = IF callback # None THEN "capture" ELSE "while"
    /\ UNCHANGED <<kind, callback, frame_number, run_ps, latest_read, capture, called,
                   measurement, now, delivered, current, iterStopped>>
    /\ UNCHANGED registryVars

\* the elapsed time tested with >= instead of >
LoopCapture_AtLeast ==
    /\ lpc = "capture"
    /\ capture' = now
    /\ IF now - latest_read >= Period
         THEN /\ lpc' = "load_callback"
              /\ current' = {callback}
         ELSE /\ lpc' = "sleep"
              /\ UNCHANGED current
    /\ UNCHANGED <<kind, callback, frame_number, run_ps, latest_read, called, measurement,
                   now, delivered, iterStopped>>
    /\ UNCHANGED registryVars

\* capture = time.time() and the test of the elapsed time
LoopCapture ==
    /\ lpc = "capture"
    /\ capture' = now
    /\ IF now - latest_read > Period
         THEN /\ lpc' = "load_callback"
              /\ current' = {callback}
         ELSE /\ lpc' = "sleep"
              /\ UNCHANGED current
    /\ UNCHANGED <<kind, callback, frame_number, run_ps, latest_read, called, measurement,
                   now, delivered, iterStopped>>
    /\ UNCHANGED registryVars

\* the listener of the first emission kept for all later ones
LoadedCallback_Cached == IF delivered = <<>> THEN callback ELSE delivered[1].to

\* self._callback, as the call expression loads it
LoadedCallback == callback

LoopLoadCallback ==
    /\ lpc = "load_callback"
    /\ called' = LoadedCallback
    /\ lpc' = "produce"
    /\ UNCHANGED <<kind, callback, frame_number, run_ps, latest_read, capture, measurement,
                   now, delivered, current, iterStopped>>
    /\ UNCHANGED registryVars

\* HDMapMeasurement(self.__call__(), self._frame_number)
LoopProduce ==
    /\ lpc = "produce"
    /\ measurement' = [type |-> MeasurementType(kind), frame_number |-> frame_number]
    /\ lpc' = "deliver"
    /\ UNCHANGED <<kind, callback, frame_number, run_ps, latest_read, capture, called,
                   now, delivered, current, iterStopped>>
    /\ UNCHANGED registryVars

\* the call of the loaded callable with the Measurement
LoopDeliver ==
    /\ lpc = "deliver"
    /\ delivered' = Append(delivered, [to |-> called,
                                       type |-> measurement.type,
                                       frame_number |-> measurement.frame_number,
                                       current |-> current,
                                       stopped |-> ~run_ps,
                                       late |-> iterStopped,
                                       at |-> now])
    /\ lpc' = "increment"
    /\ UNCHANGED <<kind, callback, frame_number, run_ps, latest_read, capture, called,
                   measurement, now, current, iterStopped>>
    /\ UNCHANGED registryVars

\* the counter set back instead of advanced
LoopIncrement_Reset ==
    /\ lpc = "increment"
    /\ frame_number' = 0
    /\ lpc' = "latest"
    /\ UNCHANGED <<kind, callback, run_ps, latest_read, capture, called, measurement,
                   now, delivered, current, iterStopped>>
    /\ UNCHANGED registryVars

\* self._frame_number += 1
LoopIncrement ==
    /\ lpc = "increment"
    /\ frame_number' = frame_number + 1
    /\ lpc' = "latest"
    /\ UNCHANGED <<kind, callback, run_ps, latest_read, capture, called, measurement,
                   now, delivered, current, iterStopped>>
    /\ UNCHANGED registryVars

\* latest_read = time.time()
LoopLatest ==
    /\ lpc = "latest"
    /\ latest_read' = now
    /\ called' = None
    /\ measurement' = NoMeasurement
    /\ current' = {}
    /\ lpc' = "while"
    /\ UNCHANGED <<kind, callback, frame_number, run_ps, capture, now, delivered,
                   iterStopped>>
    /\ UNCHANGED registryVars

\* time.sleep(0.001)
LoopSleep ==
    /\ lpc = "sleep"
    /\ lpc' = "while"
    /\ UNCHANGED <<kind, callback, frame_number, run_ps, latest_read, capture, called,
                   measurement, now, delivered, current, iterStopped>>
    /\ UNCHANGED registryVars

LoopThread ==
    \/ LoopStart
    \/ LoopWhile
    \/ LoopTestCallback
    \/ LoopCapture
    \/ LoopLoadCallback
    \/ LoopProduce
    \/ LoopDeliver
    \/ LoopIncrement
    \/ LoopLatest
    \/ LoopSleep

\* HDMapReader.listen / CANBusSensor.listen
Listen(c) ==
    /\ kind # "none"
    /\ callback' = c
    /\ current' = IF lpc \in Emitting THEN current \cup {c} ELSE current
    /\ UNCHANGED <<kind, frame_number, run_ps, lpc, latest_read, capture, called,
                   measurement, now, delivered, iterStopped>>
    /\ UNCHANGED registryVars

\* HDMapReader.destroy / CANBusSensor.destroy
Destroy ==
    /\ kind # "none"
    /\ run_ps
    /\ run_ps' = FALSE
    /\ UNCHANGED <<kind, callback, frame_number, lpc, latest_read, capture, called,
                   measurement, now, delivered, current, iterStopped>>
    /\ UNCHANGED registryVars

\* the clock advances
Tick ==
    /\ now < MaxTime
    /\ now' = now + 1
    /\ UNCHANGED <<kind, callback, frame_number, run_ps, lpc, latest_read, capture, called,
                   measurement, delivered, current, iterStopped>>
    /\ UNCHANGED registryVars

InitPollers == InitRegistry /\ \E k \in PollerKinds : InitPoller(k)

NextPoll ==
    \/ LoopStart
    \/ LoopWhile
    \/ LoopTestCallback
    \/ LoopCapture
    \/ LoopLoadCallback
    \/ LoopProduce
    \/ LoopDeliver
    \/ LoopIncrement
    \/ LoopLatest
    \/ LoopSleep
    \/ \E c \in Callbacks : Listen(c)
    \/ Destroy
    \/ Tick

SpecPoll == InitPollers /\ [][NextPoll]_vars

\* the attributes of the poller object its owner can read
PollerFields == <<callback, frame_number, run_ps>>

\* self.__call__() raises (the vehicle is gone): nothing in the loop catches it, the
\* exception leaves run / read_CAN_Bus and the thread ends
LoopProduceFails ==
    /\ lpc = "produce"
    /\ lpc' = "failed"
    /\ UNCHANGED <<kind, callback, frame_number, run_ps, latest_read, capture, called,
                   measurement, now, delivered, current, iterStopped>>
    /\ UNCHANGED registryVars

NextFail ==
    \/ NextPoll
    \/ LoopProduceFails

SpecFail == InitPollers /\ [][NextFail]_vars

\* ---- a poller that feeds the registry through CallBacks ----
\* listen(CallBack(tag, sensor, provider)): listener c is the CallBack of tag c
ListenCallBack(c) ==
    /\ c \in KeySet(sensors_objects)
    /\ Listen(c)

\* self._callback(...) when the listener is a CallBack: __call__ is entered on the
\* loop's thread with the Measurement, whose data is the reading taken for it
LoopDeliverCallBack ==
    /\ lpc = "deliver"
    /\ measurement.frame_number < MaxUpdates
    /\ Call(called, [variant |-> measurement.type,
                     frame_number |-> measurement.frame_number,
                     data |-> FrameObj(measurement.frame_number),
                     height |-> 0, width |-> 0], <<capture>>)
    /\ lpc' = "in_call"
    /\ UNCHANGED <<nframes, kind, callback, frame_number, run_ps, latest_read, capture,
                   called, measurement, now, delivered, current, iterStopped>>

\* __call__ has returned to the loop
LoopCallReturns ==
    /\ lpc = "in_call"
    /\ Finished(called)
    /\ lpc' = "increment"
    /\ UNCHANGED <<kind, callback, frame_number, run_ps, latest_read, capture, called,
                   measurement, now, delivered, current, iterStopped>>
    /\ UNCHANGED registryVars

\* the consumer keeps the timestamps of the snapshot it was returned
KeepSnapshot ==
    /\ Returned
    /\ prevTs' = [t \in DOMAIN data_dict |-> data_dict[t][1]]
    /\ prevTs' # prevTs
    /\ UNCHANGED <<registry, heap, consumerVars, producerVars, historyVars, dframe, dret,
                   dcalls, loopVars>>

NextFeed ==
    \/ LoopStart
    \/ LoopWhile
    \/ LoopTestCallback
    \/ LoopCapture
    \/ LoopLoadCallback
    \/ LoopProduce
    \/ LoopDeliverCallBack
    \/ \E p \in Producers : CallBackParse(p)
    \/ \E p \in Producers : UpdateSetData(p)
    \/ \E p \in Producers : UpdateSetTimestamp(p)
    \/ \E p \in Producers : CallBackReturn(p)
    \/ LoopCallReturns
    \/ LoopIncrement
    \/ LoopLatest
    \/ LoopSleep
    \/ \E c \in Callbacks : ListenCallBack(c)
    \/ Tick
    \/ GetDataBegin
    \/ GetDataReadTimestamp
    \/ GetDataCopy
    \/ KeepSnapshot

\* the CallBacks constructed and a poller started
InitFeed == InitCallBacks /\ \E k \in PollerKinds : InitPoller(k)

SpecFeed == InitFeed /\ [][NextFeed]_vars

\* the scheduler runs the loop thread again and again
FairSpecPoll == SpecPoll /\ WF_vars(LoopThread)

\* ---- registry claims ----
\* the snapshot as the caller sees it: tag -> (timestamp, content of the payload)
Snapshot == [t \in DOMAIN data_dict |-> <<data_dict[t][1], Content(heap, data_dict[t][2])>>]

\* no update_sensor call has stored a payload for tag t so far
NeverUpdated(t) ==
    /\ lastDone[t] = Absent
    /\ \A p \in Producers : ~(ppc[p] = "set_timestamp" /\ parg[p].tag = t)

\* C1: every entry of a snapshot is the absent state or a (timestamp, payload)
\* pair that one single update_sensor call passed for that tag.
C1_NoTornEntry ==
    \A t \in DOMAIN Snapshot :
        \/ Snapshot[t] = Absent
        \/ <<t, Snapshot[t][1], Snapshot[t][2]>> \in issued

\* C2: all_sensors_ready() returns False while a registered tag has never been
\* updated, True once every registered tag has a returned update, and never
\* False again after it returned True for the same set of tags.
C2_ReadyMonotone ==
    (cret.op = "all_sensors_ready" /\ cpc = "idle") =>
        /\ (\E t \in KeySet(sensors_objects) : NeverUpdated(t)) => cret.val = FALSE
        /\ allUpdatedAtStart => cret.val = TRUE
        /\ readySeen => cret.val = TRUE

C2_Witness ==
    /\ cret.op = "all_sensors_ready"
    /\ cpc = "idle"
    /\ cret.val = TRUE
    /\ Len(sensors_objects) >= 2
    /\ nframes >= 2

\* C3: register_sensor on a tag that is already registered raises, and leaves
\* every entry (sensor object, payload, timestamp) of every tag as it was.
C3_DuplicateRegisterRejected ==
    [][\A t \in Tags, s \in Sensors :
          (RegisterSensor(t, s) /\ t \in KeySet(sensors_objects))
             => (cret'.raised /\ UNCHANGED registry)]_vars

C3_Witness ==
    /\ cret.op = "register_sensor"
    /\ cret.raised
    /\ data_buffers[cret.tag] # None
    /\ timestamps[cret.tag] # NoTimestamp

\* C4: update_sensor on a tag that was never registered raises and leaves the
\* registry unchanged, so no snapshot ever has an entry for an unregistered tag.
C4_UnknownTagRejected ==
    /\ [][\A p \in Producers :
            (UpdateCheck(p) /\ p \notin KeySet(sensors_objects))
               => (perr'[p] /\ ppc'[p] = "idle" /\ UNCHANGED registry)]_vars
    /\ [](DOMAIN data_dict \subseteq KeySet(sensors_objects))
    /\ [](DOMAIN data_buffers = KeySet(sensors_objects))

C4_Witness ==
    \E p \in Producers :
        /\ perr[p]
        /\ ppc[p] = "idle"
        /\ p \notin KeySet(sensors_objects)
        /\ sensors_objects # <<>>
        /\ cret.op = "get_data"

\* C5: when an update_sensor call for a tag returned before get_data() was
\* called, the snapshot's entry for the tag is the pair of that call or of a
\* later call, never an earlier pair and never the absent state.
C5_SnapshotNotStale ==
    cpc \in {"get_ts", "get_copy"} =>
        \A t \in DOMAIN Snapshot : okPairs[t] # {} => Snapshot[t] \in okPairs[t]

\* the registry's state as a reader sees it: tag -> (timestamp, content of the payload)
Stored == [t \in DOMAIN data_buffers |-> <<timestamps[t], Content(heap, data_buffers[t])>>]

\* the step is taken by a producer thread
ProducerStep == ppc' # ppc \/ nframes' # nframes

\* C6: while the consumer holds a returned snapshot, what it does to the mapping
\* or to a payload in it leaves the registry and what it stores as they were,
\* and no step of an update_sensor call changes the snapshot.
C6_SnapshotIndependent ==
    [][(Returned /\ Returned') =>
          IF ProducerStep THEN Snapshot' = Snapshot
          ELSE Stored' = Stored /\ UNCHANGED registry]_vars

C6_Witness ==
    /\ Returned
    /\ \E t \in DOMAIN Snapshot :
          /\ Snapshot[t][2] > MaxUpdates
          /\ Stored[t][2] # None
          /\ Stored[t][2] <= MaxUpdates
          /\ Stored[t] # <<Snapshot[t][1], Snapshot[t][2] - MaxUpdates>>

\* C7: the snapshot's keys are exactly the registered tags, and a registered
\* tag that has never been updated is reported with the absent state.
C7_SnapshotKeys ==
    (cret.op = "get_data" /\ cpc = "idle") =>
        /\ DOMAIN Snapshot = KeySet(sensors_objects)
        /\ \A t \in KeySet(sensors_objects) : NeverUpdated(t) => Snapshot[t] = Absent

C7_Witness ==
    /\ cret.op = "get_data"
    /\ cpc = "idle"
    /\ Len(sensors_objects) >= 2
    /\ \E t \in KeySet(sensors_objects) : NeverUpdated(t)
    /\ \E t \in KeySet(sensors_objects) : Snapshot[t] # Absent

\* C19: once all_sensors_ready() has returned True and no tag was registered
\* since, every snapshot get_data() returns has, for every registered tag, a
\* payload that is not None and a timestamp that is not -1.
C19_ReadySnapshotComplete ==
    (Returned /\ readySeen) =>
        \A t \in KeySet(sensors_objects) :
            /\ t \in DOMAIN data_dict
            /\ data_dict[t][2] # None
            /\ data_dict[t][1] # NoTimestamp
\* C20: an update_sensor call that passes its test changes the payload and the
\* timestamp stored for its own tag to what it was passed and nothing else: the
\* registered tags, the sensor objects and the entry of every other tag stay as
\* they are at each of its steps, also when calls for other tags are under way.
C20_UpdateTouchesOneTag ==
    [][\A p \in Producers :
          /\ UpdateCheck(p) => UNCHANGED registry
          /\ (UpdateSetData(p) \/ UpdateSetTimestamp(p)) =>
                /\ sensors_objects' = sensors_objects
                /\ DOMAIN data_buffers' = DOMAIN data_buffers
                /\ DOMAIN timestamps' = DOMAIN timestamps
                /\ \A t \in (DOMAIN Stored) \ {parg[p].tag} : Stored'[t] = Stored[t]
          /\ UpdateSetData(p) =>
                /\ data_buffers'[parg[p].tag] = parg[p].data
                /\ timestamps' = timestamps
          /\ UpdateSetTimestamp(p) =>
                /\ timestamps'[parg[p].tag] = parg[p].timestamp
                /\ data_buffers' = data_buffers]_vars

\* the calls for two tags are under way at once, both between their two stores
C20_Witness ==
    \E p, q \in Producers :
        /\ p # q
        /\ ppc[p] = "set_timestamp"
        /\ ppc[q] = "set_timestamp"
        /\ data_buffers[p] # None
        /\ data_buffers[q] # None

\* ---- poller claims ----
\* C8: the frame_number values delivered to listeners are 0, 1, 2, ... in
\* delivery order, whenever the first listener is registered and across
\* replacement of the listener.
C8_FrameNumbersInOrder ==
    \A i \in 1..Len(delivered) :
        /\ delivered[i].frame_number = i - 1
        /\ delivered[i].type = MeasurementType(kind)

C8_Witness ==
    /\ Len(delivered) >= 2
    /\ delivered[1].to # delivered[2].to
    /\ lpc = "while"

\* C9: after destroy() the loop leaves at its next test of the flag: the thread
\* terminates, no loop iteration begins once destroy() has returned, and at
\* most the emission in progress is delivered after it.
C9_StopsAfterDestroy ==
    /\ [](\A i \in 1..Len(delivered) : ~delivered[i].late)
    /\ [](Cardinality({i \in 1..Len(delivered) : delivered[i].stopped}) <= 1)
    /\ [](lpc \in {"test_callback", "capture", "sleep"} => ~iterStopped)
    /\ (~run_ps ~> lpc = "done")

C9_Witness ==
    /\ lpc = "done"
    /\ Len(delivered) >= 2
    /\ delivered[Len(delivered)].stopped

\* C10: every Measurement is delivered to one callback, and that callback is a
\* listener that was registered at some moment since the emission started,
\* never one that listen() had replaced before.
C10_SingleListener ==
    /\ \A i \in 1..Len(delivered) :
          delivered[i].to \in delivered[i].current \cap Callbacks
    /\ \A i, j \in 1..Len(delivered) :
          delivered[i].frame_number = delivered[j].frame_number => i = j

C10_Witness ==
    \E i \in 1..Len(delivered) :
        /\ i > 1
        /\ delivered[i].to # delivered[i - 1].to
        /\ delivered[i].current = {delivered[i].to}

\* C17: an iteration emits when the time since the last emission (or since the
\* loop started) is at least 1/f, the case of exactly 1/f included, and sleeps
\* otherwise; two emissions in a row are at least 1/f apart.
C17_EmitsAtPeriod ==
    /\ lpc = "sleep" => capture - latest_read < Period
    /\ lpc \in Emitting => capture - latest_read >= Period
    /\ \A i \in 2..Len(delivered) : delivered[i].at - delivered[i - 1].at >= Period

\* C17 as amended: an iteration emits when the time since the last emission (or
\* since the loop started) is more than 1/f and sleeps otherwise, the case of
\* exactly 1/f included; two emissions in a row are more than 1/f apart.
C17_EmitsAfterPeriod ==
    /\ lpc = "sleep" => capture - latest_read <= Period
    /\ lpc \in Emitting => capture - latest_read > Period
    /\ \A i \in 2..Len(delivered) : delivered[i].at - delivered[i - 1].at > Period

\* after an emission, an iteration found exactly 1/f elapsed and went to sleep
C17_Witness ==
    /\ lpc = "sleep"
    /\ capture - latest_read = Period
    /\ Len(delivered) >= 1

\* ---- CallBack claims ----
\* C11: a __call__ with a frame of a class the isinstance chain does not name
\* ends by raising to its caller, and changes no entry of the registry.
C11_UnknownVariantReported ==
    [][\A p \in Producers, i \in SampleInputs :
          (CallBackCall(p, i.variant, i.raw, i.height, i.width)
             /\ Dispatch(i.variant) = "logging.error")
             => (dret'[p] = "raised" /\ UNCHANGED registry)]_vars

\* C12: when the producer callable fails inside the loop, the loop ends and
\* delivers nothing more, the registry is left as it was, and the failure shows
\* in what the owner can read from the poller.
C12_ProducerFailureSurfaced ==
    [][/\ LoopProduceFails =>
            /\ lpc' = "failed"
            /\ UNCHANGED <<registry, delivered>>
            /\ PollerFields' # PollerFields
       /\ lpc = "failed" => UNCHANGED <<lpc, delivered, registry>>]_vars

\* C13: every point cloud of n floats is normalised without an error, and the
\* registry then holds floor(n/3) rows of 3 floats in input order, the trailing
\* 1 or 2 floats dropped.
C13_LidarRows ==
    \A p \in Producers :
        (Finished(p) /\ dframe[p].variant = "carla.LidarMeasurement") =>
            LET raw == heap[dframe[p].data]
            IN  /\ dret[p] = "ok"
                /\ data_buffers[p] # None
                /\ heap[data_buffers[p]] =
                      [i \in 1..(Len(raw) \div 3) |->
                          <<raw[3 * i - 2], raw[3 * i - 1], raw[3 * i]>>]
                /\ timestamps[p] = dframe[p].frame_number

\* C13 as amended: a point cloud of n floats with n a multiple of 3 is stored
\* as n/3 rows of 3 floats in input order; for any other n the call raises
\* before update_sensor is called.
C13_LidarRowsOrRaise ==
    \A p \in Producers :
        (Finished(p) /\ dframe[p].variant = "carla.LidarMeasurement") =>
            LET raw == heap[dframe[p].data]
            IN  IF Len(raw) % 3 = 0
                  THEN /\ dret[p] = "ok"
                       /\ data_buffers[p] # None
                       /\ heap[data_buffers[p]] =
                             [i \in 1..(Len(raw) \div 3) |->
                                 <<raw[3 * i - 2], raw[3 * i - 1], raw[3 * i]>>]
                       /\ timestamps[p] = dframe[p].frame_number
                  ELSE /\ dret[p] = "raised"
                       /\ dcalls[p] = <<>>
                       /\ timestamps[p] # dframe[p].frame_number

\* a 9-float cloud was stored as 3 rows and the 10-float cloud after it was refused
C13_Witness ==
    \E p \in Producers :
        /\ Finished(p)
        /\ dframe[p].variant = "carla.LidarMeasurement"
        /\ Len(heap[dframe[p].data]) = 10
        /\ dret[p] = "raised"
        /\ data_buffers[p] # None
        /\ Len(heap[data_buffers[p]]) = 3

\* C14: an image of height x width pixels of 4 bytes (B, G, R, A) is stored as
\* height rows of width pixels of 3 bytes, the pixel at (row, column) being
\* (R, G, B) of the input pixel at the same place.
C14_ImageRGB ==
    \A p \in Producers :
        (Finished(p) /\ dframe[p].variant = "carla.Image") =>
            LET raw == heap[dframe[p].data]
                h == dframe[p].height
                w == dframe[p].width
                at(r, c) == 4 * ((r - 1) * w + (c - 1))
            IN  /\ dret[p] = "ok"
                /\ data_buffers[p] # None
                /\ heap[data_buffers[p]] =
                      [r \in 1..h |-> [c \in 1..w |->
                          <<raw[at(r, c) + 3], raw[at(r, c) + 2], raw[at(r, c) + 1]>>]]
                /\ timestamps[p] = dframe[p].frame_number

\* a 2 x 2 image has been stored, after a 1 x 3 one
C14_Witness ==
    \E p \in Producers :
        /\ Finished(p)
        /\ dframe[p].variant = "carla.Image"
        /\ dframe[p].height = 2
        /\ dframe[p].width = 2
        /\ dframe[p].frame_number = 1
        /\ data_buffers[p] # None
        /\ heap[data_buffers[p]] =
              <<<< <<3, 2, 1>>, <<7, 6, 5>> >>, << <<11, 10, 9>>, <<15, 14, 13>> >>>>

\* thread p, which runs the CallBack of tag p, takes the step
CallBackStep(p) == ppc'[p] # ppc[p] \/ dret'[p] # dret[p]

\* C16: a __call__ that ends without an error has called update_sensor once,
\* with the tag of its CallBack and the frame_number of its frame, the entry of
\* that tag holds what it passed, and none of its steps changes the entry of
\* another tag.
C16_OneUpdatePerFrame ==
    /\ [](\A p \in Producers :
            (Finished(p) /\ dret[p] = "ok") =>
                /\ Len(dcalls[p]) = 1
                /\ dcalls[p][1].tag = p
                /\ dcalls[p][1].timestamp = dframe[p].frame_number
                /\ timestamps[p] = dframe[p].frame_number
                /\ data_buffers[p] = dcalls[p][1].data)
    /\ [][\A p \in Producers :
            CallBackStep(p) =>
                /\ sensors_objects' = sensors_objects
                /\ \A t \in Tags \ {p} :
                      /\ data_buffers'[t] = data_buffers[t]
                      /\ timestamps'[t] = timestamps[t]]_vars

\* the CallBacks of two tags have each stored a frame, an image and a CAN reading
C16_Witness ==
    \E p, q \in Producers :
        /\ Finished(p) /\ dret[p] = "ok" /\ dframe[p].variant = "carla.Image"
        /\ Finished(q) /\ dret[q] = "ok" /\ dframe[q].variant = "CANBusMeasurement"
        /\ timestamps[p] # timestamps[q]

\* C18: the payload a CallBack stores is never the data object of the frame it
\* was passed, for any class of frame, so when the producer later writes into
\* that object the registry stores what it stored before.
C18_StoredPayloadOwned ==
    [][\A p \in Producers :
          ProducerMutatesFrame(p) =>
              /\ \A t \in DOMAIN data_buffers : data_buffers[t] # dframe[p].data
              /\ Stored' = Stored]_vars

\* ---- claims about a poller feeding the registry ----
\* C15: every update a poller makes through a CallBack stores a larger
\* timestamp for the tag than the one before, so the timestamp a snapshot
\* reports for a tag is never below the one an earlier snapshot reported.
C15_TimestampsInOrder ==
    /\ [][\A p \in Producers :
            UpdateSetTimestamp(p) => timestamps'[p] > timestamps[p]]_vars
    /\ [](Returned =>
            \A t \in (DOMAIN data_dict) \cap (DOMAIN prevTs) : data_dict[t][1] >= prevTs[t])

\* two snapshots in a row reported frame 0 and then frame 1 for a tag
C15_Witness ==
    /\ Returned
    /\ \E t \in (DOMAIN data_dict) \cap (DOMAIN prevTs) :
          /\ prevTs[t] = 0
          /\ data_dict[t][1] = 1
====
